---- MODULE Spec2Model ----
(***************************************************************************)
(* Technician assignment and workload balancing of the Autotask ticketing  *)
(* backend: SkillMatcher, CandidateRanker, WorkloadTracker and the          *)
(* AssignmentCoordinator, with the TechnicianDirectory and the TicketStore *)
(* as collaborators that can be unreachable.                                *)
(***************************************************************************)
EXTENDS Integers, Sequences, FiniteSets, TLC

\* ------------------------------------------------------------------------
\* Domains
\* ------------------------------------------------------------------------
TechIds == {"A", "B", "C"}
\* The order in which the directory query returns technicians.
TechOrder == <<"A", "B", "C">>
Skills == {"network", "software", "hardware"}
TicketIds == {"T1", "T2"}

\* Largest stored workload the model lets a counter reach.
MaxWorkload == 2

NoTech == "none"
\* The configured default technician / queue of the tier-6 fallback.
DefaultTechnician == "fallback"

StrongMatch == 70
MidMatch == 60
NeutralMatch == 50
FallbackTier == 6

\* ------------------------------------------------------------------------
\* SkillMatcher
\* ------------------------------------------------------------------------
\* A matcher without the neutral default: nothing required, nothing matched.
SkillMatchZeroOnEmpty(req, declared) ==
    IF req = {} THEN 0
    ELSE (Cardinality(req \cap declared) * 100) \div Cardinality(req)

\* Overlap of the required skills with the declared skills, as a percentage
\* of the required skills; the neutral default when nothing is required.
SkillMatch(req, declared) ==
    IF req = {} THEN NeutralMatch
    ELSE (Cardinality(req \cap declared) * 100) \div Cardinality(req)

\* ------------------------------------------------------------------------
\* CandidateRanker
\* ------------------------------------------------------------------------
\* The tier of one technician: 1-3 available (strong, mid, weak match),
\* 4-5 unavailable (strong, any lower match).  An unavailable technician
\* with no matching skill at all does not qualify: tier 6.
PriorityTier(avail, pct) ==
    IF avail
    THEN IF pct >= StrongMatch THEN 1
         ELSE IF pct >= MidMatch THEN 2
         ELSE 3
    ELSE IF pct >= StrongMatch THEN 4
         ELSE IF pct > 0 THEN 5
         ELSE FallbackTier

\* One (technician, skill-match, availability, workload) tuple with its tier.
Candidate(t, req, sk, av, wl) ==
    [id |-> t,
     pct |-> SkillMatch(req, sk[t]),
     avail |-> av[t],
     workload |-> wl[t],
     tier |-> PriorityTier(av[t], SkillMatch(req, sk[t]))]

\* The tuples of every technician of the directory, in directory order.
RECURSIVE CandidatesFrom(_, _, _, _, _, _)
CandidatesFrom(order, dir, req, sk, av, wl) ==
    IF order = <<>> THEN <<>>
    ELSE IF Head(order) \in dir
         THEN <<Candidate(Head(order), req, sk, av, wl)>>
              \o CandidatesFrom(Tail(order), dir, req, sk, av, wl)
         ELSE CandidatesFrom(Tail(order), dir, req, sk, av, wl)

\* A comparator that balances load across tiers: workload first, tier ignored.
RanksBeforeIgnoringTier(c1, c2) ==
    \/ c1.workload < c2.workload
    \/ c1.workload = c2.workload /\ c1.pct > c2.pct

\* A comparator that prefers the better fit before the lower workload.
RanksBeforeSkillFirst(c1, c2) ==
    \/ c1.tier < c2.tier
    \/ c1.tier = c2.tier /\ c1.pct > c2.pct
    \/ c1.tier = c2.tier /\ c1.pct = c2.pct /\ c1.workload < c2.workload

\* Sort key: priority tier, then current workload ascending, then
\* skill-match percentage descending.
RanksBefore(c1, c2) ==
    \/ c1.tier < c2.tier
    \/ c1.tier = c2.tier /\ c1.workload < c2.workload
    \/ c1.tier = c2.tier /\ c1.workload = c2.workload /\ c1.pct > c2.pct

\* An insertion that puts c in front of the candidates it ties with.
RECURSIVE InsertSortedBeforeTies(_, _)
InsertSortedBeforeTies(c, sorted) ==
    IF sorted = <<>> THEN <<c>>
    ELSE IF ~RanksBefore(Head(sorted), c)
         THEN <<c>> \o sorted
         ELSE <<Head(sorted)>> \o InsertSortedBeforeTies(c, Tail(sorted))

\* Stable insertion of c into an already sorted list: c goes behind every
\* element it does not rank strictly before.
RECURSIVE InsertSorted(_, _)
InsertSorted(c, sorted) ==
    IF sorted = <<>> THEN <<c>>
    ELSE IF RanksBefore(c, Head(sorted))
         THEN <<c>> \o sorted
         ELSE <<Head(sorted)>> \o InsertSorted(c, Tail(sorted))

\* Stable sort of the candidates, best first.
RECURSIVE SortCandidates(_)
SortCandidates(cands) ==
    IF cands = <<>> THEN <<>>
    ELSE InsertSorted(cands[Len(cands)],
                      SortCandidates(SubSeq(cands, 1, Len(cands) - 1)))

\* The universal fallback: the configured default technician / queue.
FallbackDecision(tk) ==
    [ticket |-> tk, tech |-> DefaultTechnician, tier |-> FallbackTier,
     pct |-> 0, load |-> 0]

\* A selection that leaves the ticket unassigned when nobody qualifies.
SelectBestCandidateOrNone(tk, cands) ==
    IF cands = <<>> \/ Head(SortCandidates(cands)).tier = FallbackTier
    THEN [ticket |-> tk, tech |-> NoTech, tier |-> FallbackTier, pct |-> 0,
          load |-> 0]
    ELSE LET best == Head(SortCandidates(cands))
         IN [ticket |-> tk, tech |-> best.id, tier |-> best.tier,
             pct |-> best.pct, load |-> best.workload]

\* The decision for one ticket: the first candidate of the ranking, or the
\* universal fallback when no technician qualifies.
SelectBestCandidate(tk, cands) ==
    IF cands = <<>>
    THEN FallbackDecision(tk)
    ELSE LET best == Head(SortCandidates(cands))
         IN IF best.tier = FallbackTier
            THEN FallbackDecision(tk)
            ELSE [ticket |-> tk, tech |-> best.id, tier |-> best.tier,
                  pct |-> best.pct, load |-> best.workload]

NoDecision ==
    [ticket |-> NoTech, tech |-> NoTech, tier |-> 0, pct |-> 0, load |-> 0]

\* ------------------------------------------------------------------------
\* State
\* ------------------------------------------------------------------------
VARIABLES
    directory,      \* TechnicianDirectory: ids of the technician records
    skills,         \* declared skill set of each technician
    available,      \* availability flag of each technician
    workload,       \* stored CURRENT_WORKLOAD of each technician
    tickets,        \* TicketStore: status, assignee, required skills
    pc,             \* position of the assign request of each ticket
    decision,       \* the AssignmentDecision the request has produced
    herror,         \* the error the request has raised to its caller
    incOk,          \* whether the request's increment was applied
    refreshPc,      \* position of the refreshAll maintenance job
    refreshCounts,  \* open-ticket counts the job has read
    refreshDirty,   \* TicketStore changed since the job read its counts
    refreshed,      \* values the last refreshAll wrote, <<>> once tickets change
    serial,         \* counters obtained by applying committed updates serially
    lastOp,         \* the WorkloadTracker operation of the last step, if any
    rankReq,        \* CandidateRanker run: required skills of the ticket
    ranked,         \* CandidateRanker run: the ordered candidate list
    rankDecision,   \* CandidateRanker run: the decision taken from the list
    scenPc,         \* serial tracker scenario: position
    scenInit,       \* serial tracker scenario: workload at its start
    apiTickets,     \* ticket screens: the tickets as the REST API holds them
    view,           \* ticket screens: the list AllTickets has loaded
    inflight,       \* ticket screens: requests sent and not yet answered
    lastServed,     \* ticket screens: what the last served request changed
    numActive,      \* ticket numbers of the rows of TICKETS
    numClosed,      \* ticket numbers of the rows of CLOSED_TICKETS
    cpc,            \* position of each ticket creation
    cand,           \* the ticket number each creation has generated
    user,           \* AuthProvider: the user state
    loading,        \* AuthProvider: the loading state
    authError,      \* AuthProvider: the error state
    storedUser,     \* localStorage: the 'user' entry
    authToken,      \* localStorage: the 'authToken' entry
    authPc,         \* the AuthProvider call that is waiting for the API
    route,          \* the page the router shows
    authLast,       \* the AuthProvider call that completed last
    creatingTicket,    \* UserDashboard: the creatingTicket state
    creationProgress,  \* UserDashboard: the creationProgress state
    formError,         \* UserDashboard: the error state is set
    submitPc,          \* UserDashboard: the call handleSubmit is waiting for
    elapsed,           \* milliseconds since createTicketWithPolling started
    delivered,         \* the last event createTicketWithPolling passed on
    posts,             \* ticket-creation POSTs sent by the current submit
    created,           \* tickets the backend created for the current submit
    chatOpen,          \* ChatButton: the ChatBot widget is mounted
    messages,          \* ChatBot: the sender of each message shown
    inputValue,        \* ChatBot: the text in the input field
    isLoading,         \* ChatBot: the isLoading state
    chatPc,            \* ChatBot: the handler waiting for the chatbot service
    chatInFlight,      \* ChatBot: requests sent whose answer is awaited
    chatOrphans,       \* requests of unmounted widgets not yet answered
    reqPc,             \* ApiService.request: position of the call
    reqOptions,        \* ApiService.request: the options of the caller
    reqHeaders,        \* ApiService.request: the headers given to fetch
    reqTimeout,        \* ApiService.request: delay of the abort timer
    reqCause,          \* ApiService.request: what ended the call
    reqResult,         \* ApiService.request: what the call returned or threw
    listPage,          \* the page showing the user's tickets, if mounted
    listUser,          \* the user object the page got from useAuth at mount
    serverTickets,     \* the tickets GET /tickets returns, as the backend sends them
    listPc,            \* position of loadUserTickets
    userTickets        \* the tickets state of the page: what it displays

vars == <<directory, skills, available, workload, tickets, pc, decision, herror, incOk, refreshPc, refreshCounts, refreshDirty,
          refreshed, serial, lastOp, rankReq, ranked, rankDecision, scenPc,
          scenInit, apiTickets, view, inflight, lastServed, numActive,
          numClosed, cpc, cand, user, loading, authError, storedUser,
          authToken, authPc, route, authLast, creatingTicket,
          creationProgress, formError, submitPc, elapsed, delivered, posts,
          created, chatOpen, messages, inputValue, isLoading, chatPc,
          chatInFlight, chatOrphans, reqPc, reqOptions, reqHeaders,
          reqTimeout, reqCause, reqResult, listPage, listUser,
          serverTickets, listPc, userTickets>>

dirVars == <<directory, skills, available>>
handlerVars == <<pc, decision, herror, incOk>>
refreshVars == <<refreshPc, refreshCounts, refreshDirty, refreshed>>
trackVars == <<serial, lastOp>>
rankVars == <<rankReq, ranked, rankDecision>>
scenVars == <<scenPc, scenInit>>
screenVars == <<apiTickets, view, inflight, lastServed>>
numberVars == <<numActive, numClosed, cpc, cand>>
authVars == <<user, loading, authError, storedUser, authToken, authPc,
              route, authLast>>
formVars == <<creatingTicket, creationProgress, formError, submitPc,
              elapsed, delivered, posts, created>>
chatVars == <<chatOpen, messages, inputValue, isLoading, chatPc,
              chatInFlight, chatOrphans>>
requestVars == <<reqPc, reqOptions, reqHeaders, reqTimeout, reqCause,
                 reqResult>>
listVars == <<listPage, listUser, serverTickets, listPc, userTickets>>
clientVars == <<formVars, chatVars, requestVars, listVars>>
restVars == <<screenVars, numberVars, authVars, clientVars>>
backendVars == <<dirVars, workload, tickets, handlerVars, refreshVars,
                 trackVars, rankVars, scenVars>>

NoOp == [op |-> "none", tech |-> NoTech, before |-> 0, repeat |-> FALSE]
ZeroWorkload == [t \in TechIds |-> 0]

OpenStatuses == {"Open", "Assigned", "In Progress", "Escalated"}
ClosedStatuses == {"Closed", "Resolved", "Cancelled"}

NewTicket(req) == [status |-> "Open", assignee |-> NoTech, required |-> req]

\* Number of tickets of the store that are assigned to t and not
\* closed / resolved / cancelled.
OpenCount(t, store) ==
    Cardinality({k \in TicketIds :
                    /\ store[k].assignee = t
                    /\ store[k].status \notin ClosedStatuses})

\* ------------------------------------------------------------------------
\* WorkloadTracker
\* ------------------------------------------------------------------------
\* An increment that is dropped.
NotIncremented(w) == w

\* update_technician_workload(id, +1): one UPDATE statement on the stored
\* counter.
Incremented(w) == w + 1

\* A decrement without the floor.
DecrementedUnclamped(w) == w - 1

\* handle_ticket_completion: GREATEST(workload - 1, 0).
Decremented(w) == IF w - 1 > 0 THEN w - 1 ELSE 0

\* A refresh that adds the counts to the stored counters.
RefreshedAdding(stored, counts) == [t \in TechIds |-> stored[t] + counts[t]]

\* A refresh that only touches technicians who have active tickets.
RefreshedWhereActive(stored, counts) ==
    [t \in TechIds |-> IF counts[t] > 0 THEN counts[t] ELSE stored[t]]

\* refresh_all_technician_workloads: every stored counter is overwritten
\* with the technician's count of active tickets.
RefreshAllTechnicianWorkloads(stored, counts) == [t \in TechIds |-> counts[t]]

\* A step that is no WorkloadTracker operation.
NoTrackerOp == lastOp' = NoOp /\ UNCHANGED serial

\* An increment computed by the handler from the workload it read.
IncrementFromRead(stored, seen) == Incremented(seen)

\* The value an increment commits: computed by the database from the stored
\* counter at the time of the UPDATE, not from the value the handler read
\* when it ranked the candidates.
UpdateTechnicianWorkload(stored, seen) == Incremented(stored)

\* ------------------------------------------------------------------------
\* AssignmentCoordinator: assign(ticket), one request per ticket at a time
\* ------------------------------------------------------------------------
\* A ticket-creation or retry event starts one assignment attempt.
StartAssign(k) ==
    /\ pc[k] = "idle"
    /\ tickets[k].status = "Open"
    /\ tickets[k].assignee = NoTech
    /\ pc' = [pc EXCEPT ![k] = "fetch"]
    /\ NoTrackerOp
    /\ UNCHANGED <<dirVars, workload, tickets, decision, herror, incOk,
                   refreshVars, rankVars, scenVars, restVars>>

\* Steps 2 to 4: read every technician record (skills, workload,
\* availability), rank the tuples, take the first candidate or the fallback.
RankTechnicians(k) ==
    /\ pc[k] = "fetch"
    /\ decision' = [decision EXCEPT ![k] =
          SelectBestCandidate(k,
              CandidatesFrom(TechOrder, directory, tickets[k].required,
                             skills, available, workload))]
    /\ pc' = [pc EXCEPT ![k] = "increment"]
    /\ NoTrackerOp
    /\ UNCHANGED <<dirVars, workload, tickets, herror, incOk, refreshVars,
                   rankVars, scenVars, restVars>>

\* TechnicianDirectory unreachable: the whole operation fails, the caller
\* retries.
FetchFails(k) ==
    /\ pc[k] = "fetch"
    /\ pc' = [pc EXCEPT ![k] = "failed"]
    /\ herror' = [herror EXCEPT ![k] = "directory"]
    /\ NoTrackerOp
    /\ UNCHANGED <<dirVars, workload, tickets, decision, incOk, refreshVars,
                   rankVars, scenVars, restVars>>

\* A step 5 that increments every technician on file.
IncrementEveryone(k) ==
    LET t == decision[k].tech IN
    /\ pc[k] = "increment"
    /\ t \in directory
    /\ workload[t] < MaxWorkload
    /\ workload' = [u \in TechIds |->
                      IF u \in directory THEN Incremented(workload[u])
                      ELSE workload[u]]
    /\ serial' = [u \in TechIds |->
                    IF u \in directory THEN serial[u] + 1 ELSE serial[u]]
    /\ lastOp' = [op |-> "increment", tech |-> NoTech, before |-> 0,
                  repeat |-> FALSE]
    /\ incOk' = [incOk EXCEPT ![k] = TRUE]
    /\ pc' = [pc EXCEPT ![k] = "persist"]
    /\ UNCHANGED <<dirVars, tickets, decision, herror, refreshVars, rankVars,
                   scenVars, restVars>>

\* Step 5: WorkloadTracker.increment on the winner.
IncrementWinner(k) ==
    LET t == decision[k].tech IN
    /\ pc[k] = "increment"
    /\ t \in directory
    /\ workload[t] < MaxWorkload      \* keeps the counters within the model
    /\ workload' = [workload EXCEPT ![t] = UpdateTechnicianWorkload(@, decision[k].load)]
    /\ serial' = [serial EXCEPT ![t] = @ + 1]
    /\ lastOp' = [op |-> "increment", tech |-> NoTech, before |-> 0,
                  repeat |-> FALSE]
    /\ incOk' = [incOk EXCEPT ![k] = TRUE]
    /\ pc' = [pc EXCEPT ![k] = "persist"]
    /\ UNCHANGED <<dirVars, tickets, decision, herror, refreshVars, rankVars,
                   scenVars, restVars>>

\* A failed increment that aborts the request.
IncrementFailsAborting(k) ==
    /\ pc[k] = "increment"
    /\ pc' = [pc EXCEPT ![k] = "failed"]
    /\ herror' = [herror EXCEPT ![k] = "tracker"]
    /\ NoTrackerOp
    /\ UNCHANGED <<dirVars, workload, tickets, decision, incOk, refreshVars,
                   rankVars, scenVars, restVars>>

\* The increment fails (unknown technician id, or the update is rejected):
\* logged, the assignment still stands.
IncrementFails(k) ==
    /\ pc[k] = "increment"
    /\ pc' = [pc EXCEPT ![k] = "persist"]
    /\ NoTrackerOp
    /\ UNCHANGED <<dirVars, workload, tickets, decision, herror, incOk,
                   refreshVars, rankVars, scenVars, restVars>>

\* A failing write that still leaves the assignee on the ticket.
PersistFailsPartial(k) ==
    /\ pc[k] = "persist"
    /\ tickets' = [tickets EXCEPT ![k].assignee = decision[k].tech]
    /\ pc' = [pc EXCEPT ![k] = "failed"]
    /\ herror' = [herror EXCEPT ![k] = "store"]
    /\ refreshDirty' = (refreshPc = "update")
    /\ refreshed' = <<>>
    /\ NoTrackerOp
    /\ UNCHANGED <<dirVars, workload, decision, incOk, refreshPc,
                   refreshCounts, rankVars, scenVars, restVars>>

\* Step 6 and the output stage: the decision is returned and persisted on
\* the ticket.
PersistDecision(k) ==
    /\ pc[k] = "persist"
    /\ tickets' = [tickets EXCEPT ![k] =
          [@ EXCEPT !.assignee = decision[k].tech, !.status = "Assigned"]]
    /\ pc' = [pc EXCEPT ![k] = "done"]
    /\ refreshDirty' = (refreshPc = "update")
    /\ refreshed' = <<>>
    /\ NoTrackerOp
    /\ UNCHANGED <<dirVars, workload, decision, herror, incOk, refreshPc,
                   refreshCounts, rankVars, scenVars, restVars>>

\* TicketStore unreachable: hard failure, the ticket remains Open.
PersistFails(k) ==
    /\ pc[k] = "persist"
    /\ pc' = [pc EXCEPT ![k] = "failed"]
    /\ herror' = [herror EXCEPT ![k] = "store"]
    /\ NoTrackerOp
    /\ UNCHANGED <<dirVars, workload, tickets, decision, incOk, refreshVars,
                   rankVars, scenVars, restVars>>

\* The request is over.
FinishRequest(k) ==
    /\ pc[k] \in {"done", "failed"}
    /\ pc' = [pc EXCEPT ![k] = "idle"]
    /\ decision' = [decision EXCEPT ![k] = NoDecision]
    /\ herror' = [herror EXCEPT ![k] = "none"]
    /\ incOk' = [incOk EXCEPT ![k] = FALSE]
    /\ NoTrackerOp
    /\ UNCHANGED <<dirVars, workload, tickets, refreshVars,
                   rankVars, scenVars, restVars>>

\* ------------------------------------------------------------------------
\* Ticket lifecycle and completion
\* ------------------------------------------------------------------------
\* Status changes made by the technician working the ticket, once the
\* request that assigned it has returned.
StatusSteps == {<<"Assigned", "In Progress">>, <<"In Progress", "Resolved">>}

UpdateTicketStatus(k, s) ==
    /\ pc[k] = "idle"
    /\ <<tickets[k].status, s>> \in StatusSteps
    /\ tickets' = [tickets EXCEPT ![k].status = s]
    /\ refreshDirty' = (refreshPc = "update")
    /\ refreshed' = <<>>
    /\ NoTrackerOp
    /\ UNCHANGED <<dirVars, workload, handlerVars, refreshPc, refreshCounts,
                   rankVars, scenVars, restVars>>

\* handle_ticket_completion(ticket, technician): a completion report, which
\* can arrive more than once for the same ticket.
HandleTicketCompletion(k) ==
    LET t == tickets[k].assignee IN
    /\ tickets[k].status \in ClosedStatuses
    /\ t \in directory
    /\ workload' = [workload EXCEPT ![t] = Decremented(@)]
    /\ serial' = [serial EXCEPT ![t] = IF @ > 0 THEN @ - 1 ELSE 0]
    /\ lastOp' = [op |-> "decrement", tech |-> t,
                  before |-> IF workload[t] = 0 THEN 0 ELSE 1,
                  repeat |-> FALSE]
    /\ UNCHANGED <<dirVars, tickets, handlerVars, refreshVars, rankVars,
                   scenVars, restVars>>

\* ------------------------------------------------------------------------
\* refreshAll: the reconciliation job
\* ------------------------------------------------------------------------
\* Count the active tickets of every technician in the TicketStore.
RefreshCount ==
    /\ refreshPc = "idle"
    /\ refreshCounts' = [t \in TechIds |-> OpenCount(t, tickets)]
    /\ refreshDirty' = FALSE
    /\ refreshPc' = "update"
    /\ NoTrackerOp
    /\ UNCHANGED <<dirVars, workload, tickets, handlerVars, refreshed,
                   rankVars, scenVars, restVars>>

\* Overwrite the stored counters with the counts.
RefreshUpdate ==
    /\ refreshPc = "update"
    /\ workload' = RefreshAllTechnicianWorkloads(workload, refreshCounts)
    /\ serial' = refreshCounts
    /\ lastOp' = [op |-> "refreshAll", tech |-> NoTech,
                  before |-> IF workload = refreshCounts THEN 0 ELSE 1,
                  repeat |-> refreshed # <<>>]
    /\ refreshed' = IF refreshDirty THEN <<>> ELSE refreshCounts
    /\ refreshDirty' = FALSE
    /\ refreshPc' = "idle"
    /\ refreshCounts' = ZeroWorkload
    /\ UNCHANGED <<dirVars, tickets, handlerVars, rankVars, scenVars, restVars>>

\* ------------------------------------------------------------------------
\* Directory changes made out of band
\* ------------------------------------------------------------------------
RemoveTechnician(t) ==
    /\ t \in directory
    /\ directory' = directory \ {t}
    /\ NoTrackerOp
    /\ UNCHANGED <<skills, available, workload, tickets, handlerVars,
                   refreshVars, rankVars, scenVars, restVars>>

\* ------------------------------------------------------------------------
\* Ticket screens of the frontend: AllTickets (TrackStatus.jsx) and
\* UrgentTickets, and the REST API that serves their requests
\* ------------------------------------------------------------------------
ScreenTickets == {"T1"}
\* Usernames of the technicians who are logged in / offered in the dropdown.
ScreenUsers == {"A", "B"}
\* Largest number of requests that are sent and not yet answered.
MaxInFlight == 2

\* The options of the status selector of AllTickets.
SelectorOptions == {"open", "in_progress", "assigned", "resolved", "completed"}
\* The status handleEscalate sends.
EscalatedStatus == "Escalated"
\* Statuses with which the PATCH endpoint moves the ticket to the closed
\* table; such a ticket is no longer served.
ArchivedStatuses == {"resolved", "completed"}

NoRequest == [kind |-> "none", ticket |-> "none", value |-> "none",
              overtaken |-> FALSE]

\* ticketService.assignTicket: POST /tickets/{id}/assign {technician_id}.
AssignRequest(ticketId, technicianId) ==
    [kind |-> "assign", ticket |-> ticketId, value |-> technicianId,
     overtaken |-> FALSE]

\* ticketService.updateTicketStatus: PATCH /tickets/{id} {status}.
StatusRequest(ticketId, status) ==
    [kind |-> "status", ticket |-> ticketId, value |-> status,
     overtaken |-> FALSE]

\* An assign endpoint that adds the technician to those already assigned.
AssignedAppending(current, technicianId) == current \cup {technicianId}

\* The technicians assigned to a ticket after the assign endpoint has
\* written technician_id into the ticket's assigned-technician reference.
AssignedAfter(current, technicianId) == {technicianId}

\* The status of a ticket after a successful assign.
StatusAfterAssign(status) == IF status = "open" THEN "assigned" ELSE status

\* loadTickets: the list AllTickets shows is what the API returned.
LoadTickets ==
    /\ view # apiTickets
    /\ view' = apiTickets
    /\ UNCHANGED <<apiTickets, inflight, lastServed, backendVars, clientVars, numberVars, authVars>>

\* AllTickets, "Assign to..." dropdown: rendered only for a ticket the
\* loaded list shows as unassigned.
AssignTicket(k, t) ==
    /\ Cardinality(inflight) < MaxInFlight
    /\ view[k].status \notin ArchivedStatuses
    /\ view[k].assigned = {}
    /\ inflight' = inflight \cup {AssignRequest(k, t)}
    /\ UNCHANGED <<apiTickets, view, lastServed, backendVars, clientVars, numberVars, authVars>>

\* AllTickets, status selector: any option other than the one shown.
UpdateTicketStatusTo(k, s) ==
    /\ Cardinality(inflight) < MaxInFlight
    /\ view[k].status \notin ArchivedStatuses
    /\ s # view[k].status
    /\ inflight' = inflight \cup {StatusRequest(k, s)}
    /\ UNCHANGED <<apiTickets, view, lastServed, backendVars, clientVars, numberVars, authVars>>

\* UrgentTickets, "Take Ticket": assigns the ticket to the current user,
\* whatever the card shows.
HandleTakeTicket(u, k) ==
    /\ Cardinality(inflight) < MaxInFlight
    /\ inflight' = inflight \cup {AssignRequest(k, u)}
    /\ UNCHANGED <<apiTickets, view, lastServed, backendVars, clientVars, numberVars, authVars>>

\* UrgentTickets, "Escalate": sets the status to Escalated, whatever the
\* card shows.
HandleEscalate(k) ==
    /\ Cardinality(inflight) < MaxInFlight
    /\ inflight' = inflight \cup {StatusRequest(k, EscalatedStatus)}
    /\ UNCHANGED <<apiTickets, view, lastServed, backendVars, clientVars, numberVars, authVars>>

\* The requests left in flight once r has been served; an assign of the
\* same ticket to somebody else has been overtaken by r.
OthersInFlight(r) ==
    {IF /\ r.kind = "assign" /\ q.kind = "assign"
        /\ q.ticket = r.ticket /\ q.value # r.value
     THEN [q EXCEPT !.overtaken = TRUE] ELSE q : q \in inflight \ {r}}

\* The API serves POST /tickets/{id}/assign.
ServeAssign(r) ==
    /\ r \in inflight
    /\ r.kind = "assign"
    /\ apiTickets[r.ticket].status \notin ArchivedStatuses
    /\ apiTickets' = [apiTickets EXCEPT ![r.ticket] =
          [status |-> StatusAfterAssign(@.status),
           assigned |-> AssignedAfter(@.assigned, r.value)]]
    /\ inflight' = OthersInFlight(r)
    /\ lastServed' = r
    /\ UNCHANGED <<view, backendVars, clientVars, numberVars, authVars>>

\* The API serves PATCH /tickets/{id}.
ServeStatus(r) ==
    /\ r \in inflight
    /\ r.kind = "status"
    /\ apiTickets[r.ticket].status \notin ArchivedStatuses
    /\ apiTickets' = [apiTickets EXCEPT ![r.ticket].status = r.value]
    /\ inflight' = OthersInFlight(r)
    /\ lastServed' = r
    /\ UNCHANGED <<view, backendVars, clientVars, numberVars, authVars>>

\* The request fails (network error, ticket not found): the screen shows an
\* error, nothing is changed.
RequestFails(r) ==
    /\ r \in inflight
    /\ inflight' = inflight \ {r}
    /\ lastServed' = NoRequest
    /\ UNCHANGED <<apiTickets, view, backendVars, clientVars, numberVars, authVars>>

ScreensIdle ==
    /\ apiTickets = [k \in ScreenTickets |-> [status |-> "open", assigned |-> {}]]
    /\ view = apiTickets
    /\ inflight = {}
    /\ lastServed = NoRequest

\* ------------------------------------------------------------------------
\* Ticket numbers: generate_ticket_number of the intake agent
\* ------------------------------------------------------------------------
\* The ticket creations that can run at the same time.
Creators == {"c1", "c2"}
\* Largest ticket number the model lets a creation generate.
MaxTicketNumber == 4
\* Digits of the numeric part of TKT-NNNNNN.
NumberWidth == 6

DigitChars == <<"0", "1", "2", "3", "4", "5", "6", "7", "8", "9">>
TicketPrefix == <<"T", "K", "T", "-">>

\* The decimal digits of a natural number.
RECURSIVE Decimal(_)
Decimal(n) ==
    IF n < 10 THEN <<DigitChars[n + 1]>>
    ELSE Decimal(n \div 10) \o <<DigitChars[(n % 10) + 1]>>

\* Zero padding on the left up to the width.
RECURSIVE ZeroPad(_, _)
ZeroPad(digits, width) ==
    IF Len(digits) >= width THEN digits
    ELSE ZeroPad(<<"0">> \o digits, width)

\* TKT-NNNNNN.
FormatTicketNumber(n) == TicketPrefix \o ZeroPad(Decimal(n), NumberWidth)

\* CAST(... AS INTEGER) of a string of digits.
RECURSIVE ParseInteger(_)
ParseInteger(digits) ==
    IF digits = <<>> THEN 0
    ELSE ParseInteger(SubSeq(digits, 1, Len(digits) - 1)) * 10
            + (CHOOSE d \in 0..9 : DigitChars[d + 1] = digits[Len(digits)])

\* extracted_numbers: the numeric value of a stored ticket number; for the
\* format TKT-NNNNNN, SUBSTRING(TICKETNUMBER, 5) cast to an integer.
ExtractNumber(ticketNumber) ==
    IF Len(ticketNumber) > 4 /\ SubSeq(ticketNumber, 1, 4) = TicketPrefix
    THEN ParseInteger(SubSeq(ticketNumber, 5, Len(ticketNumber)))
    ELSE 0

\* The largest element of a set of naturals, 0 for the empty set.
MaxOf(ns) == IF ns = {} THEN 0 ELSE CHOOSE n \in ns : \A m \in ns : m <= n

\* A lookup that only reads the TICKETS table.
HighestActiveTicketNumber(active, closed) ==
    MaxOf({ExtractNumber(tn) : tn \in active})

\* _get_highest_ticket_number_from_db: MAX over TICKETS UNION ALL
\* CLOSED_TICKETS, 0 if no tickets exist.
GetHighestTicketNumberFromDb(active, closed) ==
    MaxOf({ExtractNumber(tn) : tn \in active \cup closed})

\* _is_ticket_number_unique: the number is in neither table.
IsTicketNumberUnique(ticketNumber, active, closed) ==
    ticketNumber \notin active \cup closed

NoNumber == <<>>

\* generate_ticket_number, steps 1 and 2: highest number of all tables + 1.
GenerateTicketNumber(c) ==
    LET next == GetHighestTicketNumberFromDb(numActive, numClosed) + 1 IN
    /\ cpc[c] = "generate"
    /\ next <= MaxTicketNumber
    /\ cand' = [cand EXCEPT ![c] = FormatTicketNumber(next)]
    /\ cpc' = [cpc EXCEPT ![c] = "verify"]
    /\ UNCHANGED <<numActive, numClosed, backendVars, clientVars, screenVars, authVars>>

\* generate_ticket_number, steps 3 and 4: the number is verified and
\* returned, or generated again.
VerifyTicketNumber(c) ==
    /\ cpc[c] = "verify"
    /\ IF IsTicketNumberUnique(cand[c], numActive, numClosed)
       THEN cpc' = [cpc EXCEPT ![c] = "issued"] /\ UNCHANGED cand
       ELSE /\ cpc' = [cpc EXCEPT ![c] = "generate"]
            /\ cand' = [cand EXCEPT ![c] = NoNumber]
    /\ UNCHANGED <<numActive, numClosed, backendVars, clientVars, screenVars, authVars>>

\* Ticket creation flow, "Insert to Database": the row is inserted under
\* the generated number; TICKETNUMBER is the primary key of TICKETS, an
\* insert of a number TICKETS already holds is refused and the creation
\* generates a number again.
InsertTicket(c) ==
    /\ cpc[c] = "issued"
    /\ IF cand[c] \in numActive
       THEN /\ cpc' = [cpc EXCEPT ![c] = "generate"]
            /\ cand' = [cand EXCEPT ![c] = NoNumber]
            /\ UNCHANGED numActive
       ELSE /\ numActive' = numActive \cup {cand[c]}
            /\ cpc' = [cpc EXCEPT ![c] = "created"]
            /\ UNCHANGED cand
    /\ UNCHANGED <<numClosed, backendVars, clientVars, screenVars, authVars>>

\* The next ticket creation request arrives.
StartCreation(c) ==
    /\ cpc[c] = "created"
    /\ cpc' = [cpc EXCEPT ![c] = "generate"]
    /\ cand' = [cand EXCEPT ![c] = NoNumber]
    /\ UNCHANGED <<numActive, numClosed, backendVars, clientVars, screenVars, authVars>>

\* A resolved ticket is moved from TICKETS to CLOSED_TICKETS.
ArchiveTicket(tn) ==
    /\ tn \in numActive
    /\ numActive' = numActive \ {tn}
    /\ numClosed' = numClosed \cup {tn}
    /\ UNCHANGED <<cpc, cand, backendVars, clientVars, screenVars, authVars>>

NumbersIdle ==
    /\ numActive = {}
    /\ numClosed = {}
    /\ cpc = [c \in Creators |-> "created"]
    /\ cand = [c \in Creators |-> NoNumber]

\* ------------------------------------------------------------------------
\* Authentication: AuthProvider, authService, the token in localStorage
\* ------------------------------------------------------------------------
Accounts == {"T001", "T103"}
NoUser == "none"
NoToken == [owner |-> NoUser, live |-> FALSE]
Routes == {"/", "/dashboard"}

\* The methods the authService object defines.
AuthServiceMethods ==
    {"login", "logout", "getCurrentUser", "refreshToken", "isAuthenticated",
     "getToken"}
\* The token methods the ApiService class defines.
ApiServiceMethods == {"getAuthToken", "setAuthToken", "removeAuthToken"}

AuthIdlePc == [op |-> "idle", arg |-> NoUser]
\* The application is not open in the browser.
AuthClosedPc == [op |-> "closed", arg |-> NoUser]

\* The 'authToken' entry after object.removeAuthToken() has been called on
\* an object with these methods; calling a method the object does not define
\* throws a TypeError and removes nothing.
TokenAfterRemove(methods, token) ==
    IF "removeAuthToken" \in methods THEN NoToken ELSE token

\* Whether object.removeAuthToken() throws.
RemoveThrows(methods) == "removeAuthToken" \notin methods

\* The application is opened or reloaded: user is read from localStorage,
\* then initializeAuth runs and asks for the current user when there is a
\* token and no user.
AppLoad ==
    /\ authPc \in {AuthClosedPc, AuthIdlePc}
    /\ user' = storedUser
    /\ authError' = FALSE
    /\ IF authToken # NoToken /\ storedUser = NoUser
       THEN loading' = TRUE /\ authPc' = [op |-> "init", arg |-> NoUser]
       ELSE loading' = FALSE /\ authPc' = AuthIdlePc
    /\ authLast' = "load"
    /\ UNCHANGED <<storedUser, authToken, route, backendVars, clientVars, screenVars,
                   numberVars>>

\* initializeAuth: authService.getCurrentUser() returns the user.
GetCurrentUserSucceeds ==
    /\ authPc.op = "init"
    /\ authToken.live
    /\ user' = authToken.owner
    /\ storedUser' = authToken.owner
    /\ loading' = FALSE
    /\ authPc' = AuthIdlePc
    /\ authLast' = "init_ok"
    /\ UNCHANGED <<authError, authToken, route, backendVars, clientVars, screenVars,
                   numberVars>>

\* initializeAuth: authService.getCurrentUser() fails (expired token, network
\* error, timeout).  The catch block calls authService.removeAuthToken() and
\* then removes the 'user' entry; finally sets loading to false.
GetCurrentUserFails ==
    /\ authPc.op = "init"
    /\ authToken' = TokenAfterRemove(AuthServiceMethods, authToken)
    /\ storedUser' = IF RemoveThrows(AuthServiceMethods) THEN storedUser
                     ELSE NoUser
    /\ loading' = FALSE
    /\ authPc' = AuthIdlePc
    /\ authLast' = "init_failed"
    /\ UNCHANGED <<user, authError, route, backendVars, clientVars, screenVars,
                   numberVars>>

\* AuthProvider.login(credentials) is called from the login page.
LoginStart(a) ==
    /\ authPc = AuthIdlePc
    /\ route = "/"
    /\ loading' = TRUE
    /\ authError' = FALSE
    /\ authPc' = [op |-> "login", arg |-> a]
    /\ authLast' = "none"
    /\ UNCHANGED <<user, storedUser, authToken, route, backendVars, clientVars,
                   screenVars, numberVars>>

\* authService.login stores the token, AuthProvider.login the user.
LoginSucceeds ==
    /\ authPc.op = "login"
    /\ authToken' = [owner |-> authPc.arg, live |-> TRUE]
    /\ user' = authPc.arg
    /\ storedUser' = authPc.arg
    /\ loading' = FALSE
    /\ route' = "/dashboard"
    /\ authPc' = AuthIdlePc
    /\ authLast' = "login_ok"
    /\ UNCHANGED <<authError, backendVars, clientVars, screenVars, numberVars>>

LoginFails ==
    /\ authPc.op = "login"
    /\ authError' = TRUE
    /\ loading' = FALSE
    /\ authPc' = AuthIdlePc
    /\ authLast' = "login_failed"
    /\ UNCHANGED <<user, storedUser, authToken, route, backendVars, clientVars,
                   screenVars, numberVars>>

\* Header.handleLogout calls AuthProvider.logout(), which sets loading and
\* awaits authService.logout().
LogoutStart ==
    /\ authPc = AuthIdlePc
    /\ route = "/dashboard"
    /\ loading' = TRUE
    /\ authPc' = [op |-> "logout", arg |-> NoUser]
    /\ authLast' = "none"
    /\ UNCHANGED <<user, authError, storedUser, authToken, route,
                   backendVars, clientVars, screenVars, numberVars>>

\* The logout endpoint answers: authService.logout removes the token in its
\* finally block, AuthProvider.logout clears user and the 'user' entry in
\* its own, handleLogout navigates to '/'.
LogoutApiSucceeds ==
    /\ authPc.op = "logout"
    /\ authToken' = TokenAfterRemove(ApiServiceMethods, authToken)
    /\ user' = NoUser
    /\ storedUser' = NoUser
    /\ loading' = FALSE
    /\ route' = "/"
    /\ authPc' = AuthIdlePc
    /\ authLast' = "logout_ok"
    /\ UNCHANGED <<authError, backendVars, clientVars, screenVars, numberVars>>

\* A logout that removes the token only after the endpoint has answered.
LogoutApiFailsKeepingToken ==
    /\ authPc.op = "logout"
    /\ user' = NoUser
    /\ storedUser' = NoUser
    /\ loading' = FALSE
    /\ route' = "/"
    /\ authPc' = AuthIdlePc
    /\ authLast' = "logout_api_failed"
    /\ UNCHANGED <<authError, authToken, backendVars, clientVars, screenVars, numberVars>>

\* The logout endpoint fails or times out: authService.logout catches the
\* error and still removes the token; the rest is as above.
LogoutApiFails ==
    /\ authPc.op = "logout"
    /\ authToken' = TokenAfterRemove(ApiServiceMethods, authToken)
    /\ user' = NoUser
    /\ storedUser' = NoUser
    /\ loading' = FALSE
    /\ route' = "/"
    /\ authPc' = AuthIdlePc
    /\ authLast' = "logout_api_failed"
    /\ UNCHANGED <<authError, backendVars, clientVars, screenVars, numberVars>>

\* The token expires at the server.
TokenExpires ==
    /\ authToken.live
    /\ authToken' = [authToken EXCEPT !.live = FALSE]
    /\ authLast' = "none"
    /\ UNCHANGED <<user, loading, authError, storedUser, authPc, route,
                   backendVars, clientVars, screenVars, numberVars>>

AuthIdle ==
    /\ user = NoUser
    /\ loading = FALSE
    /\ authError = FALSE
    /\ storedUser = NoUser
    /\ authToken = NoToken
    /\ authPc = AuthIdlePc
    /\ route = "/"
    /\ authLast = "none"

\* ------------------------------------------------------------------------
\* The create-ticket form: UserDashboard.handleSubmit,
\* ticketService.createTicketWithPolling and createTicket
\* ------------------------------------------------------------------------
\* Period of the progress interval of createTicketWithPolling.
IntervalMs == 2000
\* Timeout of the ticket-creation POST.
CreateTimeoutMs == 120000
\* Largest number of interval periods by which one interval callback is late.
MaxTickDelay == 3

NoProgress == [seq |-> 0, stage |-> "none", progress |-> 0]
ProgressEvent(n, stage, progress) ==
    [seq |-> n, stage |-> stage, progress |-> progress]

\* Math.round of the non-negative fraction num / den.
RoundFraction(num, den) == (2 * num + den) \div (2 * den)

\* A progress that is not held at 90.
ProgressUnclamped(ms) ==
    RoundFraction(10 * CreateTimeoutMs + ms * 80, CreateTimeoutMs)

\* Math.round(Math.min(90, 10 + (elapsed / 120000) * 80)).
ProgressAt(ms) ==
    LET scaled == 10 * CreateTimeoutMs + ms * 80
        limit == 90 * CreateTimeoutMs
    IN RoundFraction(IF scaled < limit THEN scaled ELSE limit,
                     CreateTimeoutMs)

otherThanForm == <<backendVars, screenVars, numberVars, authVars, chatVars,
                   requestVars, listVars>>

\* handleSubmit.  A form without title or description only sets the error.
\* Otherwise createTicketWithPolling is called: it passes on the
\* 'submitting' event, createTicket sends the POST, the interval is set up.
HandleSubmit(valid) ==
    /\ ~creatingTicket
    /\ submitPc = "idle"
    /\ IF ~valid
       THEN /\ formError' = TRUE
            /\ UNCHANGED <<creatingTicket, creationProgress, submitPc,
                           elapsed, delivered, posts, created>>
       ELSE /\ creatingTicket' = TRUE
            /\ formError' = FALSE
            /\ delivered' = ProgressEvent(1, "submitting", 10)
            /\ creationProgress' = ProgressEvent(1, "submitting", 10)
            /\ posts' = 1
            /\ created' = 0
            /\ elapsed' = 0
            /\ submitPc' = "polling"
    /\ UNCHANGED otherThanForm

\* The interval callback of createTicketWithPolling runs, d periods after
\* the previous one (or after the start).  It is due one period after the
\* previous one and no longer runs once the timeout of the POST, which was
\* set before the interval, has become due first.
ProgressTick(d) ==
    LET now == elapsed + d * IntervalMs
        event == ProgressEvent(delivered.seq + 1, "processing",
                               ProgressAt(now))
    IN
    /\ submitPc = "polling"
    /\ elapsed + IntervalMs < CreateTimeoutMs
    /\ elapsed' = now
    /\ delivered' = event
    /\ creationProgress' = event
    /\ UNCHANGED <<creatingTicket, formError, submitPc, posts, created,
                   otherThanForm>>

\* What handleSubmit does after a creation has succeeded: the form is reset
\* and closed, creationProgress and creatingTicket are cleared.
SubmitDone ==
    /\ creatingTicket' = FALSE
    /\ creationProgress' = NoProgress
    /\ formError' = FALSE
    /\ submitPc' = "idle"

\* The POST of createTicketWithPolling is answered with the ticket: the
\* interval is cleared, the 'completed' event passed on, and handleSubmit
\* goes on after its await.
PollingSucceeds ==
    /\ submitPc = "polling"
    /\ created' = created + 1
    /\ delivered' = ProgressEvent(delivered.seq + 1, "completed", 100)
    /\ SubmitDone
    /\ UNCHANGED <<elapsed, posts, otherThanForm>>

\* The POST of createTicketWithPolling fails or is aborted by its timeout,
\* whether or not the backend has stored or will still store the ticket:
\* the interval is cleared, the error thrown, and handleSubmit falls back
\* to createTicket, which sends the POST again.
PollingFails(stored) ==
    /\ submitPc = "polling"
    /\ created' = created + (IF stored THEN 1 ELSE 0)
    /\ creationProgress' = ProgressEvent(delivered.seq, "fallback", 50)
    /\ posts' = posts + 1
    /\ submitPc' = "fallback"
    /\ UNCHANGED <<creatingTicket, formError, elapsed, delivered,
                   otherThanForm>>

\* The POST of the fallback is answered with the ticket.
FallbackSucceeds ==
    /\ submitPc = "fallback"
    /\ created' = created + 1
    /\ SubmitDone
    /\ UNCHANGED <<elapsed, delivered, posts, otherThanForm>>

\* The POST of the fallback fails as well: the error is shown.
FallbackFails(stored) ==
    /\ submitPc = "fallback"
    /\ created' = created + (IF stored THEN 1 ELSE 0)
    /\ creatingTicket' = FALSE
    /\ creationProgress' = NoProgress
    /\ formError' = TRUE
    /\ submitPc' = "idle"
    /\ UNCHANGED <<elapsed, delivered, posts, otherThanForm>>

FormIdle ==
    /\ creatingTicket = FALSE
    /\ creationProgress = NoProgress
    /\ formError = FALSE
    /\ submitPc = "idle"
    /\ elapsed = 0
    /\ delivered = NoProgress
    /\ posts = 0
    /\ created = 0

\* ------------------------------------------------------------------------
\* The ChatBot widget
\* ------------------------------------------------------------------------
\* Number of messages from which on the model accepts no user message.
MaxMessages == 6
\* Largest number of unanswered requests of unmounted widgets.
MaxOrphans == 2
\* Texts typed into the input field: nothing, blanks only, a question.
InputValues == {"", " ", "printer offline"}
QuickActions == {"getMyTickets", "aiResolution", "getSimilarTickets",
                 "getFAQ"}
\* The greeting the widget starts with.
Greeting == <<"bot">>
ChatIdlePc == [handler |-> "none", call |-> "none"]

otherThanChat == <<backendVars, screenVars, numberVars, authVars, formVars,
                   requestVars, listVars>>

\* String.trim() of the texts above.
Trim(text) == IF text = " " THEN "" ELSE text

\* addMessage(text, sender).
AddMessage(sender) == messages' = Append(messages, sender)

\* ChatButton mounts the widget.
OpenChat ==
    /\ ~chatOpen
    /\ chatOpen' = TRUE
    /\ UNCHANGED <<messages, inputValue, isLoading, chatPc, chatInFlight,
                   chatOrphans, otherThanChat>>

\* ChatButton or onClose unmounts the widget: its state is discarded.  A
\* request it has sent is not cancelled; its answer changes nothing.
CloseChat ==
    /\ chatOpen
    /\ chatOrphans + chatInFlight <= MaxOrphans
    /\ chatOrphans' = chatOrphans + chatInFlight
    /\ chatOpen' = FALSE
    /\ messages' = Greeting
    /\ inputValue' = ""
    /\ isLoading' = FALSE
    /\ chatPc' = ChatIdlePc
    /\ chatInFlight' = 0
    /\ UNCHANGED otherThanChat

\* The answer to a request of an unmounted widget arrives.
OrphanAnswered ==
    /\ chatOrphans > 0
    /\ chatOrphans' = chatOrphans - 1
    /\ UNCHANGED <<chatOpen, messages, inputValue, isLoading, chatPc,
                   chatInFlight, otherThanChat>>

\* onChange of the input field, which is disabled while isLoading.
TypeInput(text) ==
    /\ chatOpen
    /\ ~isLoading
    /\ inputValue # text
    /\ inputValue' = text
    /\ UNCHANGED <<chatOpen, messages, isLoading, chatPc, chatInFlight,
                   chatOrphans, otherThanChat>>

\* handleInputSubmit (Enter or the send button) and handleSendMessage up to
\* its await: the user message is added, the input cleared, isLoading set,
\* and handleChatMessage sends the message to the chatbot service.
HandleInputSubmit ==
    /\ chatOpen
    /\ ~isLoading
    /\ Trim(inputValue) # ""
    /\ Len(messages) < MaxMessages
    /\ AddMessage("user")
    /\ inputValue' = ""
    /\ isLoading' = TRUE
    /\ chatPc' = [handler |-> "chat", call |-> "sendChatMessage"]
    /\ chatInFlight' = chatInFlight + 1
    /\ UNCHANGED <<chatOpen, chatOrphans, otherThanChat>>

\* The first call each quick action makes.
FirstCall(action) ==
    CASE action = "getMyTickets" -> "getMyTickets"
      [] action = "aiResolution" -> "sendChatMessage"
      [] action = "getSimilarTickets" -> "sendChatMessage"
      [] action = "getFAQ" -> "sendChatMessage"

\* A quick action button that is not disabled while a request is running.
HandleQuickActionUnguarded(action) ==
    /\ chatOpen
    /\ Len(messages) < MaxMessages
    /\ isLoading' = TRUE
    /\ AddMessage("user")
    /\ chatPc' = [handler |-> action, call |-> FirstCall(action)]
    /\ chatInFlight' = chatInFlight + 1
    /\ UNCHANGED <<chatOpen, inputValue, chatOrphans, otherThanChat>>

\* A quick action button is clicked (onClick: !isLoading &&
\* handleQuickAction(action)): isLoading is set, the user message added and
\* the first call of the action sent.
HandleQuickAction(action) ==
    /\ chatOpen
    /\ ~isLoading
    /\ Len(messages) < MaxMessages
    /\ isLoading' = TRUE
    /\ AddMessage("user")
    /\ chatPc' = [handler |-> action, call |-> FirstCall(action)]
    /\ chatInFlight' = chatInFlight + 1
    /\ UNCHANGED <<chatOpen, inputValue, chatOrphans, otherThanChat>>

\* The call handleSimilarTickets makes next, "none" when it returns its
\* text: without a text in the chat answer it asks for the user's tickets,
\* and with a ticket for the tickets similar to it.
NextSimilarCall(call, ok, filled) ==
    IF ~ok \/ call = "getSimilarTickets" THEN "none"
    ELSE IF call = "sendChatMessage"
         THEN IF filled THEN "none" ELSE "getMyTickets"
         ELSE IF filled THEN "getSimilarTickets" ELSE "none"

\* The chatbot service answers the request in flight, with a failure
\* (~ok), with a text or tickets (filled) or without.  The handler returns
\* its text (the reply or its own fallback text) and the bot message is
\* added and isLoading cleared; handleSimilarTickets may send its next
\* request instead.
ChatRequestAnswered(ok, filled) ==
    LET next == IF chatPc.handler = "getSimilarTickets"
                THEN NextSimilarCall(chatPc.call, ok, filled)
                ELSE "none"
    IN
    /\ chatOpen
    /\ chatInFlight > 0
    /\ IF next = "none"
       THEN /\ AddMessage("bot")
            /\ isLoading' = FALSE
            /\ chatPc' = ChatIdlePc
            /\ chatInFlight' = chatInFlight - 1
       ELSE /\ chatPc' = [chatPc EXCEPT !.call = next]
            /\ UNCHANGED <<messages, isLoading, chatInFlight>>
    /\ UNCHANGED <<chatOpen, inputValue, chatOrphans, otherThanChat>>

ChatIdle ==
    /\ chatOpen = FALSE
    /\ messages = Greeting
    /\ inputValue = ""
    /\ isLoading = FALSE
    /\ chatPc = ChatIdlePc
    /\ chatInFlight = 0
    /\ chatOrphans = 0

\* ------------------------------------------------------------------------
\* ApiService.request
\* ------------------------------------------------------------------------
\* REQUEST_TIMEOUT and the timeout createTicket passes, in milliseconds.
RequestTimeoutMs == 30000
\* DEFAULT_HEADERS.  A header value is a sequence of words.
DefaultHeaders ==
    [n \in {"Content-Type", "Accept"} |-> <<"application/json">>]
NoHeaders == [n \in {} |-> <<>>]
\* The headers objects a caller passes as options.headers.
CustomHeaders ==
    {NoHeaders,
     [n \in {"X-Request-Id"} |-> <<"42">>],
     [n \in {"Content-Type"} |-> <<"multipart/form-data">>],
     [n \in {"Authorization"} |-> <<"Basic", "c2VjcmV0">>]}
\* The options of a call: with or without the property headers, with or
\* without a timeout (0: none given).
RequestOptions ==
    [hasHeaders : {FALSE}, headers : {NoHeaders},
     timeout : {0, CreateTimeoutMs}]
    \cup [hasHeaders : {TRUE}, headers : CustomHeaders,
          timeout : {0, CreateTimeoutMs}]
NoOptions == [hasHeaders |-> FALSE, headers |-> NoHeaders, timeout |-> 0]

HttpStatuses == {200, 401, 408, 500}
\* Bodies of a response: a JSON object with or without the property detail,
\* the JSON value null, JSON that cannot be parsed, text that is not JSON.
ResponseBodies ==
    {"object_with_detail", "object", "null", "broken_json", "text"}
NoResult == [kind |-> "none", class |-> "none", status |-> 0]
Returned == [kind |-> "value", class |-> "none", status |-> 0]
Thrown(class, status) ==
    [kind |-> "error", class |-> class, status |-> status]
NoCause == [event |-> "none", status |-> 0, body |-> "none"]

otherThanRequest == <<backendVars, screenVars, numberVars, authVars,
                      formVars, chatVars, listVars>>

\* { ...a, ...b }: the properties of both objects, those of b winning.
SpreadOver(a, b) ==
    [n \in DOMAIN a \cup DOMAIN b |-> IF n \in DOMAIN b THEN b[n] ELSE a[n]]

\* The text of a stored token.
TokenText(token) ==
    <<token.owner, IF token.live THEN "current" ELSE "expired">>

\* `Bearer ${token}`.
Bearer(token) == <<"Bearer">> \o TokenText(token)

\* getHeaders(customHeaders): the default headers, the custom headers over
\* them, and Authorization when a token is stored.
GetHeaders(customHeaders, token) ==
    LET headers == SpreadOver(DefaultHeaders, customHeaders) IN
    IF token # NoToken
    THEN SpreadOver(headers, [n \in {"Authorization"} |-> Bearer(token)])
    ELSE headers

\* The headers of config = { headers: this.getHeaders(options.headers),
\* ...options }: the property headers of options, when there is one,
\* replaces what getHeaders returned.
ConfigHeaders(options, token) ==
    IF options.hasHeaders THEN options.headers
    ELSE GetHeaders(options.headers, token)

\* response.ok.
ResponseOk(status) == status >= 200 /\ status <= 299

\* The content type a body is sent with.
IsJsonContent(body) == body # "text"

\* request(endpoint, options) up to the await of fetch: timeout, config and
\* the abort timer.
ApiRequest(options) ==
    /\ reqPc \in {"idle", "done"}
    /\ reqOptions' = options
    /\ reqTimeout' = IF options.timeout # 0 THEN options.timeout
                     ELSE RequestTimeoutMs
    /\ reqHeaders' = ConfigHeaders(options, authToken)
    /\ reqCause' = NoCause
    /\ reqResult' = NoResult
    /\ reqPc' = "fetch"
    /\ UNCHANGED otherThanRequest

\* The catch block of request: an AbortError becomes an ApiError with
\* status 408, an ApiError is thrown again as it is, everything else
\* becomes an ApiError with status 0.
CatchBlock(error) ==
    IF error.class = "AbortError" THEN Thrown("ApiError", 408)
    ELSE IF error.class = "ApiError" THEN error
    ELSE Thrown("ApiError", 0)

\* fetch rejects with a TypeError (network error).
FetchRejects ==
    /\ reqPc = "fetch"
    /\ reqCause' = [NoCause EXCEPT !.event = "network"]
    /\ reqResult' = CatchBlock(Thrown("TypeError", 0))
    /\ reqPc' = "done"
    /\ UNCHANGED <<reqOptions, reqHeaders, reqTimeout, otherThanRequest>>

\* The timer aborts the fetch, which rejects with an AbortError.
TimeoutAborts ==
    /\ reqPc = "fetch"
    /\ reqCause' = [NoCause EXCEPT !.event = "timeout"]
    /\ reqResult' = CatchBlock(Thrown("AbortError", 0))
    /\ reqPc' = "done"
    /\ UNCHANGED <<reqOptions, reqHeaders, reqTimeout, otherThanRequest>>

\* What the try block does with a response that is not ok: errorData is
\* the parsed body, {} when the body cannot be parsed; an ApiError with the
\* status of the response is thrown, but reading errorData.detail of null
\* throws a TypeError first.
ErrorResponseResult(status, body) ==
    IF body = "null" THEN Thrown("TypeError", 0)
    ELSE Thrown("ApiError", status)

\* What the try block does with a response that is ok: it returns the
\* parsed JSON or the text, or response.json() throws a SyntaxError.
OkResponseResult(body) ==
    IF IsJsonContent(body) /\ body = "broken_json"
    THEN Thrown("SyntaxError", 0)
    ELSE Returned

\* fetch resolves with a response; the timer is cleared.
ResponseArrives(status, body) ==
    /\ reqPc = "fetch"
    /\ reqCause' = [event |-> "response", status |-> status, body |-> body]
    /\ reqResult' =
          LET outcome == IF ResponseOk(status) THEN OkResponseResult(body)
                         ELSE ErrorResponseResult(status, body)
          IN IF outcome.kind = "error" THEN CatchBlock(outcome) ELSE outcome
    /\ reqPc' = "done"
    /\ UNCHANGED <<reqOptions, reqHeaders, reqTimeout, otherThanRequest>>

RequestIdle ==
    /\ reqPc = "idle"
    /\ reqOptions = NoOptions
    /\ reqHeaders = NoHeaders
    /\ reqTimeout = 0
    /\ reqCause = NoCause
    /\ reqResult = NoResult

\* ------------------------------------------------------------------------
\* The user's ticket lists: loadUserTickets of UserDashboard and TrackStatus
\* ------------------------------------------------------------------------
\* The value of a property an object does not have (undefined or null).
Undefined == "undefined"
ListPages == {"UserDashboard", "TrackStatus"}
NoPage == "none"

\* The user objects useAuth can return at mount: null while no user is
\* loaded, a user with an email, a user without one.
NoUserObject == [loaded |-> FALSE, username |-> Undefined, email |-> Undefined]
UserObjects ==
    {NoUserObject,
     [loaded |-> TRUE, username |-> "U001", email |-> "u001@corp.example"],
     [loaded |-> TRUE, username |-> "U001", email |-> Undefined],
     [loaded |-> TRUE, username |-> "U002", email |-> "u002@corp.example"]}

RawTicket(id, email, userId, requester) ==
    [TICKETNUMBER |-> id, USEREMAIL |-> email, USERID |-> userId,
     requester_name |-> requester]

\* Tickets as the backend sends them: of U001 and of U002 with all owner
\* fields, of U002 without an email, with a requester name only, and
\* without any owner field.
RawTickets ==
    {RawTicket("TKT-000001", "u001@corp.example", "U001", Undefined),
     RawTicket("TKT-000002", "u002@corp.example", "U002", Undefined),
     RawTicket("TKT-000003", Undefined, "U002", Undefined),
     RawTicket("TKT-000004", Undefined, Undefined, "U001"),
     RawTicket("TKT-000005", Undefined, Undefined, Undefined)}

otherThanList == <<backendVars, screenVars, numberVars, authVars,
                   formVars, chatVars, requestVars>>

\* a || b.
OrElse(a, b) == IF a # Undefined /\ a # "" THEN a ELSE b

\* transformTicketData, owner fields.  The backend sends no lowercase
\* user_id and user_email.
TransformTicketData(ticket) ==
    [id |-> ticket.TICKETNUMBER,
     user_id |-> OrElse(ticket.USERID, Undefined),
     user_email |-> OrElse(ticket.USEREMAIL, Undefined),
     requester_name |-> OrElse(ticket.USERID, ticket.requester_name)]

\* The filter of loadUserTickets, with userId = user?.username and
\* userEmail = user?.email: === holds of two undefined values as well.
IsUserTicket(ticket, userObject) ==
    LET userId == userObject.username
        userEmail == userObject.email
    IN \/ ticket.user_email = userEmail
       \/ ticket.user_id = userId
       \/ ticket.requester_name = userId

\* The page is mounted: it keeps the user object of this render, and the
\* effect calls loadUserTickets, which asks for all tickets.
MountListPage(page, userObject) ==
    /\ listPage = NoPage
    /\ listPage' = page
    /\ listUser' = userObject
    /\ listPc' = "loading"
    /\ userTickets' = {}
    /\ UNCHANGED <<serverTickets, otherThanList>>

\* getAllTickets returns: the tickets are transformed, filtered with the
\* user object of the mount, and stored in the tickets state.
TicketsLoaded ==
    /\ listPc = "loading"
    /\ userTickets' = {t \in {TransformTicketData(r) : r \in serverTickets} :
                          IsUserTicket(t, listUser)}
    /\ listPc' = "loaded"
    /\ UNCHANGED <<listPage, listUser, serverTickets, otherThanList>>

\* getAllTickets fails: the error is shown, the tickets state stays as it is.
TicketsFailed ==
    /\ listPc = "loading"
    /\ listPc' = "failed"
    /\ UNCHANGED <<listPage, listUser, serverTickets, userTickets,
                   otherThanList>>

\* The user leaves the page.
LeaveListPage ==
    /\ listPage # NoPage
    /\ listPc # "loading"
    /\ listPage' = NoPage
    /\ listUser' = NoUserObject
    /\ listPc' = "idle"
    /\ userTickets' = {}
    /\ UNCHANGED <<serverTickets, otherThanList>>

ListIdle ==
    /\ listPage = NoPage
    /\ listUser = NoUserObject
    /\ serverTickets = {}
    /\ listPc = "idle"
    /\ userTickets = {}

ClientIdle == FormIdle /\ ChatIdle /\ RequestIdle /\ ListIdle

FrontIdle == ScreensIdle /\ NumbersIdle /\ AuthIdle /\ ClientIdle

\* ------------------------------------------------------------------------
\* Initial states and specifications
\* ------------------------------------------------------------------------

HandlersIdle ==
    /\ pc = [k \in TicketIds |-> "idle"]
    /\ decision = [k \in TicketIds |-> NoDecision]
    /\ herror = [k \in TicketIds |-> "none"]
    /\ incOk = [k \in TicketIds |-> FALSE]

RefreshIdle ==
    /\ refreshPc = "idle"
    /\ refreshCounts = ZeroWorkload
    /\ refreshDirty = FALSE
    /\ refreshed = <<>>

RankerIdle ==
    /\ rankReq = {}
    /\ ranked = <<>>
    /\ rankDecision = NoDecision

ScenarioIdle ==
    /\ scenPc = "off"
    /\ scenInit = [tech |-> NoTech, workload |-> 0]

\* Staffing data and required-skill hints the live system starts from.
StaffSkills ==
    [t \in TechIds |-> IF t = "A" THEN {"network"}
                       ELSE IF t = "B" THEN {"software"}
                       ELSE {"hardware"}]
StaffOnFile == {"A", "B"}
TicketRequirements ==
    [k \in TicketIds |-> IF k = "T1" THEN {"network"}
                         ELSE {"network", "software", "hardware"}]

\* The live system: every technician on file with no work, every ticket
\* just created.
Init ==
    /\ directory = StaffOnFile
    /\ skills = StaffSkills
    /\ available \in {av \in [TechIds -> BOOLEAN] :
                        av["A"] /\ \A t \in TechIds \ StaffOnFile : ~av[t]}
    /\ workload = ZeroWorkload
    /\ serial = ZeroWorkload
    /\ lastOp = NoOp
    /\ tickets = [k \in TicketIds |-> NewTicket(TicketRequirements[k])]
    /\ HandlersIdle
    /\ RefreshIdle
    /\ RankerIdle
    /\ ScenarioIdle
    /\ FrontIdle

Next ==
    \/ \E k \in TicketIds : StartAssign(k)
    \/ \E k \in TicketIds : RankTechnicians(k)
    \/ \E k \in TicketIds : FetchFails(k)
    \/ \E k \in TicketIds : IncrementWinner(k)
    \/ \E k \in TicketIds : IncrementFails(k)
    \/ \E k \in TicketIds : PersistDecision(k)
    \/ \E k \in TicketIds : PersistFails(k)
    \/ \E k \in TicketIds : FinishRequest(k)
    \/ \E k \in TicketIds, s \in OpenStatuses \cup ClosedStatuses :
          UpdateTicketStatus(k, s)
    \/ \E k \in TicketIds : HandleTicketCompletion(k)
    \/ RefreshCount
    \/ RefreshUpdate
    \/ \E t \in TechIds : RemoveTechnician(t)

Spec == Init /\ [][Next]_vars

\* ------------------------------------------------------------------------
\* CandidateRanker on its own: one ranking of an arbitrary directory
\* ------------------------------------------------------------------------
RankSkillSets == {{}, {"network"}, {"network", "software"}, Skills}
RankRequired == {{}, {"network"}, Skills}

InitRank ==
    /\ directory \in SUBSET TechIds
    /\ skills \in [TechIds -> RankSkillSets]
    /\ available \in [TechIds -> BOOLEAN]
    /\ workload \in [TechIds -> 0..MaxWorkload]
    /\ \A t \in TechIds \ directory :
          skills[t] = {} /\ ~available[t] /\ workload[t] = 0
    /\ serial = workload
    /\ lastOp = NoOp
    /\ tickets = [k \in TicketIds |-> NewTicket({})]
    /\ HandlersIdle
    /\ RefreshIdle
    /\ rankReq \in RankRequired
    /\ ranked = <<>>
    /\ rankDecision = NoDecision
    /\ ScenarioIdle
    /\ FrontIdle

\* Rank the whole directory for a ticket with the required skills rankReq.
RankDirectory ==
    LET cands == CandidatesFrom(TechOrder, directory, rankReq, skills,
                                available, workload) IN
    /\ rankDecision = NoDecision
    /\ ranked' = SortCandidates(cands)
    /\ rankDecision' = SelectBestCandidate("T1", cands)
    /\ UNCHANGED <<dirVars, workload, tickets, handlerVars, refreshVars,
                   trackVars, rankReq, scenVars, restVars>>

NextRank == RankDirectory

SpecRank == InitRank /\ [][NextRank]_vars

\* ------------------------------------------------------------------------
\* WorkloadTracker on its own: increment, decrement, decrement in series
\* ------------------------------------------------------------------------
InitScenario ==
    /\ directory = TechIds
    /\ skills = StaffSkills
    /\ available = [t \in TechIds |-> TRUE]
    /\ workload \in [TechIds -> 0..MaxWorkload]
    /\ serial = workload
    /\ lastOp = NoOp
    /\ tickets = [k \in TicketIds |-> NewTicket({})]
    /\ HandlersIdle
    /\ RefreshIdle
    /\ RankerIdle
    /\ scenPc = "start"
    /\ \E t \in TechIds : scenInit = [tech |-> t, workload |-> workload[t]]
    /\ FrontIdle

ScenarioIncrement ==
    LET t == scenInit.tech IN
    /\ scenPc = "start"
    /\ workload' = [workload EXCEPT ![t] = UpdateTechnicianWorkload(@, @)]
    /\ serial' = [serial EXCEPT ![t] = @ + 1]
    /\ lastOp' = [op |-> "increment", tech |-> NoTech, before |-> 0,
                  repeat |-> FALSE]
    /\ scenPc' = "incremented"
    /\ UNCHANGED <<dirVars, tickets, handlerVars, refreshVars, rankVars,
                   scenInit, restVars>>

ScenarioDecrement ==
    LET t == scenInit.tech IN
    /\ scenPc \in {"incremented", "decremented"}
    /\ workload' = [workload EXCEPT ![t] = Decremented(@)]
    /\ serial' = [serial EXCEPT ![t] = IF @ > 0 THEN @ - 1 ELSE 0]
    /\ lastOp' = [op |-> "decrement", tech |-> t,
                  before |-> IF workload[t] = 0 THEN 0 ELSE 1,
                  repeat |-> FALSE]
    /\ scenPc' = IF scenPc = "incremented" THEN "decremented" ELSE "done"
    /\ UNCHANGED <<dirVars, tickets, handlerVars, refreshVars, rankVars,
                   scenInit, restVars>>

NextScenario == ScenarioIncrement \/ ScenarioDecrement

SpecScenario == InitScenario /\ [][NextScenario]_vars

\* ------------------------------------------------------------------------
\* The ticket screens on their own
\* ------------------------------------------------------------------------
\* The backend at rest: everybody on file, no request, no job running.
BackendIdle ==
    /\ directory = StaffOnFile
    /\ skills = StaffSkills
    /\ available = [t \in TechIds |-> t \in StaffOnFile]
    /\ workload = ZeroWorkload
    /\ serial = ZeroWorkload
    /\ lastOp = NoOp
    /\ tickets = [k \in TicketIds |-> NewTicket(TicketRequirements[k])]
    /\ HandlersIdle
    /\ RefreshIdle
    /\ RankerIdle
    /\ ScenarioIdle

InitScreens ==
    /\ BackendIdle
    /\ FrontIdle

NextScreens ==
    \/ LoadTickets
    \/ \E k \in ScreenTickets, t \in ScreenUsers : AssignTicket(k, t)
    \/ \E k \in ScreenTickets, s \in SelectorOptions : UpdateTicketStatusTo(k, s)
    \/ \E u \in ScreenUsers, k \in ScreenTickets : HandleTakeTicket(u, k)
    \/ \E k \in ScreenTickets : HandleEscalate(k)
    \/ \E r \in inflight : ServeAssign(r)
    \/ \E r \in inflight : ServeStatus(r)
    \/ \E r \in inflight : RequestFails(r)

SpecScreens == InitScreens /\ [][NextScreens]_vars

\* ------------------------------------------------------------------------
\* Ticket numbering on its own: concurrent ticket creations
\* ------------------------------------------------------------------------
\* The tables hold the tickets numbered 1..n, any of them closed.
InitNumbers ==
    /\ BackendIdle
    /\ ScreensIdle
    /\ AuthIdle
    /\ ClientIdle
    /\ \E n \in 0..(MaxTicketNumber - 1) :
          \E closed \in SUBSET (1..n) :
              /\ numClosed = {FormatTicketNumber(i) : i \in closed}
              /\ numActive = {FormatTicketNumber(i) : i \in (1..n) \ closed}
    /\ cpc = [c \in Creators |-> "generate"]
    /\ cand = [c \in Creators |-> NoNumber]

NextNumbers ==
    \/ \E c \in Creators : GenerateTicketNumber(c)
    \/ \E c \in Creators : VerifyTicketNumber(c)
    \/ \E c \in Creators : InsertTicket(c)
    \/ \E c \in Creators : StartCreation(c)
    \/ \E tn \in numActive : ArchiveTicket(tn)

SpecNumbers == InitNumbers /\ [][NextNumbers]_vars

\* ------------------------------------------------------------------------
\* Authentication on its own
\* ------------------------------------------------------------------------
\* The application is not open; localStorage holds whatever an earlier
\* session left in it.
InitAuth ==
    /\ BackendIdle
    /\ ScreensIdle
    /\ NumbersIdle
    /\ ClientIdle
    /\ storedUser \in Accounts \cup {NoUser}
    /\ authToken \in {NoToken} \cup [owner : Accounts, live : BOOLEAN]
    /\ route \in Routes
    /\ user = NoUser
    /\ loading = FALSE
    /\ authError = FALSE
    /\ authPc = AuthClosedPc
    /\ authLast = "none"

NextAuth ==
    \/ AppLoad
    \/ GetCurrentUserSucceeds
    \/ GetCurrentUserFails
    \/ \E a \in Accounts : LoginStart(a)
    \/ LoginSucceeds
    \/ LoginFails
    \/ LogoutStart
    \/ LogoutApiSucceeds
    \/ LogoutApiFails
    \/ TokenExpires

SpecAuth == InitAuth /\ [][NextAuth]_vars

\* ------------------------------------------------------------------------
\* The create-ticket form on its own
\* ------------------------------------------------------------------------
InitForm ==
    /\ BackendIdle
    /\ FrontIdle

NextForm ==
    \/ \E valid \in BOOLEAN : HandleSubmit(valid)
    \/ \E d \in 1..MaxTickDelay : ProgressTick(d)
    \/ PollingSucceeds
    \/ \E stored \in BOOLEAN : PollingFails(stored)
    \/ FallbackSucceeds
    \/ \E stored \in BOOLEAN : FallbackFails(stored)

SpecForm == InitForm /\ [][NextForm]_vars

\* ------------------------------------------------------------------------
\* The ChatBot widget on its own
\* ------------------------------------------------------------------------
InitChat ==
    /\ BackendIdle
    /\ FrontIdle

NextChat ==
    \/ OpenChat
    \/ CloseChat
    \/ OrphanAnswered
    \/ \E text \in InputValues : TypeInput(text)
    \/ HandleInputSubmit
    \/ \E action \in QuickActions : HandleQuickAction(action)
    \/ \E ok, filled \in BOOLEAN : ChatRequestAnswered(ok, filled)

SpecChat == InitChat /\ [][NextChat]_vars

\* ------------------------------------------------------------------------
\* ApiService.request on its own
\* ------------------------------------------------------------------------
\* Nobody is logged in, or an account is, with its token in localStorage;
\* a token can also have been left behind without a user.
InitRequest ==
    /\ BackendIdle
    /\ ScreensIdle
    /\ NumbersIdle
    /\ ClientIdle
    /\ storedUser \in Accounts \cup {NoUser}
    /\ user = storedUser
    /\ authToken \in {NoToken} \cup [owner : Accounts, live : BOOLEAN]
    /\ storedUser # NoUser => authToken \notin {NoToken} /\ authToken.owner = storedUser
    /\ loading = FALSE
    /\ authError = FALSE
    /\ authPc = AuthIdlePc
    /\ route = IF storedUser = NoUser THEN "/" ELSE "/dashboard"
    /\ authLast = "none"

NextRequest ==
    \/ \E options \in RequestOptions : ApiRequest(options)
    \/ FetchRejects
    \/ TimeoutAborts
    \/ \E status \in HttpStatuses, body \in ResponseBodies :
          ResponseArrives(status, body)

SpecRequest == InitRequest /\ [][NextRequest]_vars

\* ------------------------------------------------------------------------
\* The user's ticket lists on their own
\* ------------------------------------------------------------------------
\* The backend holds some of the tickets; no page is mounted.
InitList ==
    /\ BackendIdle
    /\ ScreensIdle
    /\ NumbersIdle
    /\ AuthIdle
    /\ FormIdle
    /\ ChatIdle
    /\ RequestIdle
    /\ serverTickets \in SUBSET RawTickets
    /\ listPage = NoPage
    /\ listUser = NoUserObject
    /\ listPc = "idle"
    /\ userTickets = {}

NextList ==
    \/ \E page \in ListPages, userObject \in UserObjects :
          MountListPage(page, userObject)
    \/ TicketsLoaded
    \/ TicketsFailed
    \/ LeaveListPage

SpecList == InitList /\ [][NextList]_vars

\* ------------------------------------------------------------------------
\* Properties of the ranking (SpecRank)
\* ------------------------------------------------------------------------
MatchOf(t) == SkillMatch(rankReq, skills[t])

\* The six tiers as membership conditions on a technician of the directory.
InTier(t, n) ==
    \/ n = 1 /\ available[t] /\ MatchOf(t) >= 70
    \/ n = 2 /\ available[t] /\ MatchOf(t) >= 60 /\ MatchOf(t) < 70
    \/ n = 3 /\ available[t] /\ MatchOf(t) < 60
    \/ n = 4 /\ ~available[t] /\ MatchOf(t) >= 70
    \/ n = 5 /\ ~available[t] /\ MatchOf(t) > 0 /\ MatchOf(t) < 70

TierMembers(n) == {t \in directory : InTier(t, n)}

\* The first tier, in the order 1..6, that has a member.
FirstTier ==
    IF \E n \in 1..5 : TierMembers(n) # {}
    THEN CHOOSE n \in 1..5 :
            /\ TierMembers(n) # {}
            /\ \A m \in 1..5 : m < n => TierMembers(m) = {}
    ELSE 6

\* C1: the chosen technician comes from the first non-empty tier in the
\* order 1..6; a technician of tiers 1-5 is chosen before the tier-6
\* universal fallback, and with an available technician at >= 70% match the
\* choice is never drawn from a lower tier.
C1_FirstNonEmptyTierWins ==
    rankDecision # NoDecision =>
        /\ rankDecision.tier = FirstTier
        /\ FirstTier <= 5 => rankDecision.tech \in TierMembers(FirstTier)
        /\ FirstTier = 6 => rankDecision.tech = DefaultTechnician
        /\ (\E t \in directory : available[t] /\ MatchOf(t) >= 70)
              => /\ rankDecision.tech \in directory
                 /\ available[rankDecision.tech]
                 /\ MatchOf(rankDecision.tech) >= 70

\* A ranking in which a tier-1 technician was chosen although a technician
\* of a lower tier carries less workload.
C1_Witness ==
    /\ rankDecision # NoDecision
    /\ rankDecision.tier = 1
    /\ \E t \in directory :
          /\ ~InTier(t, 1)
          /\ workload[t] < workload[rankDecision.tech]

\* C2: within a tier the candidates are ordered by current workload
\* ascending and then by skill-match descending; of two technicians with
\* identical availability and skill-match the one with the lower workload
\* is ranked first, and the decision takes the first of the ranking.
C2_WorkloadThenSkillWithinTier ==
    rankDecision # NoDecision =>
        /\ Len(ranked) = Cardinality(directory)
        /\ \A i, j \in 1..Len(ranked) : ranked[i].id = ranked[j].id => i = j
        /\ {ranked[i].id : i \in 1..Len(ranked)} = directory
        /\ rankDecision.tech # DefaultTechnician
              => ranked # <<>> /\ rankDecision.tech = ranked[1].id
        /\ \A i, j \in 1..Len(ranked) :
              (i < j /\ ranked[i].tier = ranked[j].tier) =>
                  \/ ranked[i].workload < ranked[j].workload
                  \/ /\ ranked[i].workload = ranked[j].workload
                     /\ ranked[i].pct >= ranked[j].pct
        /\ \A i, j \in 1..Len(ranked) :
              (/\ available[ranked[i].id] = available[ranked[j].id]
               /\ MatchOf(ranked[i].id) = MatchOf(ranked[j].id)
               /\ workload[ranked[i].id] < workload[ranked[j].id]) => i < j

\* A and B both available with the same match, A listed first but carrying
\* more workload and a match no better than B's: B is chosen.
C2_Witness ==
    /\ rankDecision # NoDecision
    /\ {"A", "B"} \subseteq directory
    /\ available["A"] /\ available["B"]
    /\ MatchOf("A") = 100 /\ MatchOf("B") = 100
    /\ workload["A"] > workload["B"]
    /\ rankDecision.tech = "B"

\* Position of a technician in the list the directory returns.
DirectoryPosition(t) == CHOOSE i \in 1..Len(TechOrder) : TechOrder[i] = t

\* Two candidates that tie on tier, workload and skill-match.
SameKeys(c1, c2) ==
    c1.tier = c2.tier /\ c1.workload = c2.workload /\ c1.pct = c2.pct

RefreshCompletes == refreshPc = "update" /\ refreshPc' = "idle"

\* C6: refreshAll is idempotent: a refreshAll that completes while the
\* values written by the previous refreshAll are still current (no ticket
\* has changed since that refreshAll read its counts) writes the same
\* workload values again.
C6_RefreshIdempotent ==
    [][(RefreshCompletes /\ refreshed # <<>>) => workload' = refreshed]_vars

\* refreshAll has just run a second time with no ticket change in between,
\* and left the values of the first run, some of them non-zero.
C6_Witness ==
    /\ lastOp.op = "refreshAll"
    /\ lastOp.repeat
    /\ refreshed # <<>>
    /\ workload = refreshed
    /\ \E t \in TechIds : workload[t] > 0

\* Tickets of the store that count as the open tickets of technician t.
ActiveTicketsOf(t, store) ==
    {k \in TicketIds :
        /\ store[k].assignee = t
        /\ store[k].status \in {"Open", "Assigned", "In Progress", "Escalated"}}

\* C7: a refreshAll that completes with no ticket change since it read the
\* TicketStore leaves every technician's stored workload equal to the number
\* of that technician's assigned, not closed / resolved / cancelled tickets,
\* whatever the counters were before.
C7_RefreshReconciles ==
    [][(RefreshCompletes /\ ~refreshDirty) =>
          \A t \in TechIds :
              workload'[t] = Cardinality(ActiveTicketsOf(t, tickets'))]_vars

\* refreshAll has just overwritten a counter that had drifted from the
\* technician's open tickets, and every counter now equals the count.
C7_Witness ==
    /\ lastOp.op = "refreshAll"
    /\ lastOp.before = 1
    /\ refreshed # <<>>
    /\ \A t \in TechIds : workload[t] = Cardinality(ActiveTicketsOf(t, tickets))
    /\ \E t \in TechIds : workload[t] > 0

\* C8 as stated: whenever assign fails because the TechnicianDirectory or
\* the TicketStore is unreachable, the ticket is unassigned and Open and the
\* request has changed no technician's workload.
C8_FailureLeavesNothing ==
    \A k \in TicketIds :
        pc[k] = "failed" =>
            /\ tickets[k].assignee = NoTech
            /\ tickets[k].status = "Open"
            /\ ~incOk[k]

\* C8 amended: a failed assign leaves the ticket unassigned and Open; when
\* the TechnicianDirectory was unreachable the request has produced no
\* decision and changed no workload; when the TicketStore was unreachable
\* the winner's workload may already have been incremented.
C8_FailureLeavesTicketOpen ==
    \A k \in TicketIds :
        pc[k] = "failed" =>
            /\ herror[k] \in {"directory", "store"}
            /\ tickets[k].assignee = NoTech
            /\ tickets[k].status = "Open"
            /\ herror[k] = "directory" =>
                  ~incOk[k] /\ decision[k] = NoDecision

\* One request failed on the directory and another on the store, the
\* latter after its increment was applied.
C8_Witness ==
    \E k, j \in TicketIds :
        /\ pc[k] = "failed" /\ herror[k] = "directory"
        /\ pc[j] = "failed" /\ herror[j] = "store" /\ incOk[j]

\* C9: when the increment fails after a technician is chosen, also for an
\* unknown technician id, the request goes on with its decision, ends with
\* the ticket assigned to the chosen technician, and raises no error.
C9_AssignmentStandsWithoutIncrement ==
    \A k \in TicketIds :
        /\ (pc[k] \in {"persist", "done"} /\ ~incOk[k]) =>
              /\ decision[k].tech # NoTech
              /\ herror[k] = "none"
        /\ (pc[k] = "done" /\ ~incOk[k]) =>
              tickets[k].assignee = decision[k].tech
        /\ pc[k] = "failed" => herror[k] # "tracker"

\* The chosen technician left the directory before the increment, which
\* therefore failed; the ticket is assigned to that technician all the same.
C9_Witness ==
    \E k \in TicketIds :
        /\ pc[k] = "done"
        /\ ~incOk[k]
        /\ decision[k].tech \in TechIds \ directory
        /\ tickets[k].assignee = decision[k].tech
        /\ herror[k] = "none"

\* C14 as stated: a successful assign has added 1 to the workload of the
\* technician it chose.
C14_SuccessfulAssignAddsOne ==
    \A k \in TicketIds : pc[k] = "done" => incOk[k]

\* C14 amended: step 5 of a request either applies its increment, which
\* adds exactly 1 to the workload of the chosen technician and leaves every
\* other workload unchanged, or fails, which changes no workload; no other
\* step of a request changes a workload.
C14_AssignAddsOneOrNothing ==
    [][\A k \in TicketIds :
          /\ (pc[k] = "increment" /\ pc'[k] # pc[k]) =>
                IF incOk'[k]
                THEN /\ decision[k].tech \in directory
                     /\ workload' = [workload EXCEPT
                                       ![decision[k].tech] = @ + 1]
                ELSE workload' = workload
          /\ (pc[k] # "increment" /\ pc'[k] # pc[k]) => workload' = workload]_vars

\* One assign has succeeded with its increment applied and another with its
\* increment failed: the only workload that has changed is that of the first
\* one's technician, by 1.
C14_Witness ==
    \E k, j \in TicketIds :
        /\ pc[k] = "done" /\ incOk[k]
        /\ pc[j] = "done" /\ ~incOk[j]
        /\ decision[k].tech \in TechIds
        /\ workload = [t \in TechIds |->
                          IF t = decision[k].tech THEN 1 ELSE 0]

\* C17: when a request reaches step 5 and the technician it selected is no
\* longer in the directory, the coordinator skips that candidate and ranks
\* the remaining ones again: the request does not fail, and it goes on with
\* a technician of the directory or the default technician.
C17_SkipsRemovedTechnician ==
    [][\A k \in TicketIds :
          (/\ pc[k] = "increment"
           /\ pc'[k] # "increment"
           /\ decision[k].tech \in TechIds \ directory) =>
              /\ pc'[k] # "failed"
              /\ decision'[k].tech \in directory \cup {DefaultTechnician}]_vars

\* ------------------------------------------------------------------------
\* Properties of the serial tracker scenario (SpecScenario)
\* ------------------------------------------------------------------------
\* C10: increment(A), decrement(A), decrement(A) in series leave
\* workload(A) at max(0, initial - 1), not at initial - 2.
C10_IncDecDec ==
    scenPc = "done" =>
        /\ workload[scenInit.tech] =
              (IF scenInit.workload - 1 > 0 THEN scenInit.workload - 1 ELSE 0)
        /\ workload[scenInit.tech] # scenInit.workload - 2

\* The sequence has run from an initial workload of 0 and ended at 0.
C10_Witness ==
    /\ scenPc = "done"
    /\ scenInit.workload = 0
    /\ workload[scenInit.tech] = 0

SpecStatus(s) ==
    CASE s = "open" -> "Open"
      [] s = "assigned" -> "Assigned"
      [] s = "in_progress" -> "In Progress"
      [] s = "resolved" -> "Resolved"
      [] s = "completed" -> "Closed"
      [] OTHER -> "Escalated"

\* Open -> Assigned -> In Progress -> Resolved / Closed; Escalated from
\* Open, Assigned or In Progress, and from Escalated back into assignment.
StateMachine ==
    {<<"Open", "Assigned">>, <<"Assigned", "In Progress">>,
     <<"In Progress", "Resolved">>, <<"In Progress", "Closed">>,
     <<"Open", "Escalated">>, <<"Assigned", "Escalated">>,
     <<"In Progress", "Escalated">>, <<"Escalated", "Assigned">>}

\* C12: every change of a ticket's status is a transition of the state
\* machine Open -> Assigned -> In Progress -> Resolved / Closed, with
\* Escalated entered only from Open, Assigned or In Progress.
C12_StatusFollowsStateMachine ==
    [][\A k \in ScreenTickets :
          apiTickets'[k].status # apiTickets[k].status =>
              <<SpecStatus(apiTickets[k].status),
                SpecStatus(apiTickets'[k].status)>> \in StateMachine]_vars

\* ------------------------------------------------------------------------
\* Properties of the ticket numbering (SpecNumbers)
\* ------------------------------------------------------------------------
\* C15: two ticket creations that run concurrently never hold the same
\* ticket number: a number a creation has been issued is in neither table
\* and differs from the number issued to the other creation.
C15_ConcurrentNumbersDiffer ==
    \A c \in Creators :
        cpc[c] = "issued" =>
            /\ cand[c] \notin numActive \cup numClosed
            /\ \A d \in Creators \ {c} :
                  cpc[d] = "issued" => cand[d] # cand[c]

\* The numeric values of the ticket numbers of both tables.
StoredNumbers == {ExtractNumber(tn) : tn \in numActive \cup numClosed}

C19_LogoutClearsSession ==
    authLast \in {"logout_ok", "logout_api_failed"} =>
        /\ user = NoUser
        /\ storedUser = NoUser
        /\ authToken = NoToken
        /\ ~loading
        /\ route = "/"
        /\ authPc = AuthIdlePc

\* A logout whose API call failed has just completed.
C19_Witness ==
    /\ authLast = "logout_api_failed"
    /\ user = NoUser
    /\ storedUser = NoUser
    /\ authToken = NoToken
    /\ route = "/"

\* C20: when initializeAuth's request for the current user has failed, the
\* auth token is removed, the 'user' entry is cleared, loading is false and
\* the user is unauthenticated.
C20_FailedInitRemovesToken ==
    authLast = "init_failed" =>
        /\ authToken = NoToken
        /\ storedUser = NoUser
        /\ ~loading
        /\ user = NoUser

\* ------------------------------------------------------------------------
\* Properties of the create-ticket form (SpecForm)
\* ------------------------------------------------------------------------
\* C21: createTicketWithPolling passes on exactly one 'submitting' event
\* (progress 10) when it is called, then 'processing' events whose progress
\* never decreases and stays within 10..90, then, exactly when the creation
\* succeeded, one 'completed' event (progress 100); after its promise has
\* settled it passes on nothing.
C21_ProgressEventsInOrder ==
    [][/\ (submitPc = "idle" /\ submitPc' = "polling") =>
              delivered' = ProgressEvent(1, "submitting", 10)
       /\ (submitPc = "polling" /\ submitPc' = "polling") =>
              \/ delivered' = delivered
              \/ /\ delivered'.seq = delivered.seq + 1
                 /\ delivered'.stage = "processing"
                 /\ delivered.stage \in {"submitting", "processing"}
                 /\ delivered'.progress >= delivered.progress
                 /\ delivered'.progress \in 10..90
       /\ (submitPc = "polling" /\ submitPc' = "idle") =>
              /\ delivered.stage \in {"submitting", "processing"}
              /\ delivered' = ProgressEvent(delivered.seq + 1, "completed",
                                            100)
              /\ created' = created + 1
       /\ (submitPc = "polling" /\ submitPc' = "fallback") =>
              delivered' = delivered
       /\ submitPc \in {"idle", "fallback"} /\ submitPc' # "polling" =>
              delivered' = delivered
      ]_vars

\* A creation has succeeded after a late interval callback, whose progress
\* was held at 90.
C21_Witness ==
    /\ delivered.stage = "completed"
    /\ delivered.progress = 100
    /\ delivered.seq > 2
    /\ elapsed > CreateTimeoutMs
    /\ submitPc = "idle"

\* C22: one submission of the form sends at most one ticket-creation POST
\* and creates at most one ticket, also when the first attempt fails or
\* times out and the fallback is taken.
C22_AtMostOnePostPerSubmit ==
    /\ posts <= 1
    /\ created <= 1

C23_NothingAcceptedWhileLoading ==
    [][isLoading /\ chatOpen' =>
          /\ inputValue' = inputValue
          /\ chatInFlight' <= chatInFlight
          /\ messages' \in {messages, Append(messages, "bot")}
          /\ (messages' # messages <=> ~isLoading')
      ]_vars

\* ------------------------------------------------------------------------
\* Properties of ApiService.request (SpecRequest)
\* ------------------------------------------------------------------------
\* C24: every request issued while an auth token is stored gives fetch the
\* header Authorization: Bearer <token> and every default header, also when
\* the caller passes its own headers.
C24_RequestCarriesBearerToken ==
    (reqPc # "idle" /\ authToken # NoToken) =>
        /\ "Authorization" \in DOMAIN reqHeaders
        /\ reqHeaders["Authorization"] = Bearer(authToken)
        /\ \A n \in DOMAIN DefaultHeaders : n \in DOMAIN reqHeaders

\* The expected status of the ApiError for what ended the call.
ExpectedStatus(cause) ==
    IF cause.event = "timeout" THEN 408
    ELSE IF cause.event = "response" /\ ~ResponseOk(cause.status)
         THEN cause.status
         ELSE 0

\* C25: whatever request throws is an ApiError, with status 408 when the
\* timeout aborted the request, the HTTP status when the response is not
\* ok, and 0 for a network or any other error.
C25_EveryFailureIsAnApiError ==
    (reqPc = "done" /\ reqResult.kind = "error") =>
        /\ reqResult.class = "ApiError"
        /\ reqResult.status = ExpectedStatus(reqCause)

\* ------------------------------------------------------------------------
\* Properties of the user's ticket lists (SpecList)
\* ------------------------------------------------------------------------
\* A ticket belongs to a user: its email, user id or requester name is the
\* email or the username of the user.
BelongsTo(ticket, userObject) ==
    \E field \in {ticket.user_email, ticket.user_id, ticket.requester_name} :
        /\ field # Undefined
        /\ field \in {userObject.email, userObject.username}

\* C26: the user dashboard and the Track Status page display only tickets
\* that belong to the logged-in user, also when the user object has no
\* email or is not loaded at mount.
C26_OnlyOwnTicketsDisplayed ==
    \A t \in userTickets : BelongsTo(t, listUser)

====
